---- MODULE Spec2Model ----
(***************************************************************************)
(* The SimliElevenlabs session component (src/app/SimliElevenlabs.tsx).    *)
(*                                                                         *)
(* The file holds two components of the same name.  The second one         *)
(* (lines 200-594) talks to the agent over a WebSocket it owns; it is the  *)
(* state machine of Spec and SpecCapture.  The first one (lines 1-199)     *)
(* delegates the conversation to the useConversation hook; it is the       *)
(* state machine of SpecHook.                                              *)
(*                                                                         *)
(* Every handler runs to completion on the one event loop, so a handler    *)
(* is one action.  A handler is written as an operator from the state      *)
(* record before it to the state record after it, so that the calls a      *)
(* handler makes compose in the order of the source.                       *)
(***************************************************************************)
EXTENDS Integers, Naturals, Sequences, FiniteSets, Bags, TLC

VARIABLES
    isLoading,          \* useState, line 236
    isAvatarVisible,    \* useState, line 237
    error,              \* useState, line 238
    videoRef,           \* useRef, line 241: TRUE when the <video> element is mounted
    audioRef,           \* useRef, line 242: TRUE when the <audio> element is mounted
    websocketRef,       \* useRef, line 243: 0 is null, else an index of sockets
    mediaRecorderRef,   \* useRef, line 244: 0 is null, else an index of captures
    streamRef,          \* useRef, line 245: 0 is null, else an index of captures
    sockets,            \* every WebSocket made at line 379, in order of creation
    captures,           \* every MediaStream/MediaRecorder pair made at 306-318
    simliState,         \* the module-level SimliClient (line 226)
    simliInitialized,   \* SimliClient.Initialize was called
    listeners,          \* "connected" callbacks registered on the SimliClient
    startsPending,      \* simliClient.start() promises not yet settled
    fetches,            \* getElevenLabsSignedUrl calls in flight
    timers,             \* the bag of setTimeout callbacks of line 399 not yet run
    micPending,         \* getUserMedia calls in flight
    reads,              \* the bag of chunks whose FileReader load is in flight (line 333)
    session,            \* the first component: its useConversation session
    calls,              \* the calls the last handler made on its collaborators, in order
    lastOp              \* the handler that ran last, and the event it was given

vars == <<isLoading, isAvatarVisible, error, videoRef, audioRef, websocketRef,
          mediaRecorderRef, streamRef, sockets, captures, simliState,
          simliInitialized, listeners, startsPending, fetches, timers,
          micPending, reads, session, calls, lastOp>>

\* ------------------------------------------------------------------ bounds
MaxStarts == 2      \* clicks of the start button
MaxSockets == 2     \* sockets made
MaxTimers == 1      \* pong timers pending at once
MaxCaptures == 1    \* microphone streams asked for
MaxReads == 1       \* FileReader loads pending at once
MaxCycles == 3      \* clicks of the start button in SpecCycles

\* ------------------------------------------------------------------ inputs
Absent == -1
\* event id and ping_ms of the pings the agent sends
Pings == {<<1, Absent>>, <<2, 1>>}
\* "" and "AP8=" as sequences of characters
AudioPayloads == { <<>>, <<"A", "P", "8", "=">> }
InfoTags == {"user_transcript", "agent_response", "interruption"}
UnknownTags == {"conversation_initiation_metadata"}
\* The chunks the recorder delivers: an empty one, and encoded chunks of a
\* buffer that is silent and of one that is not.
Chunks == {[size |-> 0, silent |-> TRUE], [size |-> 1, silent |-> TRUE],
           [size |-> 1, silent |-> FALSE]}

Frame(type, event_id, ping_ms, audio_base_64) ==
    [type |-> type, event_id |-> event_id, ping_ms |-> ping_ms,
     audio_base_64 |-> audio_base_64]

InboundFrames ==
    {Frame("ping", p[1], p[2], <<>>) : p \in Pings}
    \cup {Frame("audio", 1, Absent, p) : p \in AudioPayloads}
    \cup {Frame(t, 0, Absent, <<>>) : t \in InfoTags \cup UnknownTags}

\* ------------------------------------------------------------------ codec
\* The base64 alphabet, value i at position i+1.
B64Alphabet ==
    <<"A","B","C","D","E","F","G","H","I","J","K","L","M","N","O","P",
      "Q","R","S","T","U","V","W","X","Y","Z","a","b","c","d","e","f",
      "g","h","i","j","k","l","m","n","o","p","q","r","s","t","u","v",
      "w","x","y","z","0","1","2","3","4","5","6","7","8","9","+","/">>

B64Value(c) == (CHOOSE i \in 1..64 : B64Alphabet[i] = c) - 1

\* The padding "=" that ends a string whose length is a multiple of 4 is removed.
StripPadding(b64) ==
    LET n == Len(b64)
    IN IF n > 0 /\ n % 4 = 0 /\ b64[n] = "="
       THEN IF b64[n - 1] = "=" THEN SubSeq(b64, 1, n - 2) ELSE SubSeq(b64, 1, n - 1)
       ELSE b64

\* atob: the character codes of the binary string the base64 text stands for.
\* Four characters carry three bytes; a tail of two carries one byte and a
\* tail of three carries two, the spare low bits being dropped.
RECURSIVE DecodeGroups(_)
DecodeGroups(cs) ==
    IF Len(cs) = 0 THEN <<>>
    ELSE IF Len(cs) >= 4 THEN
        LET n == B64Value(cs[1]) * 262144 + B64Value(cs[2]) * 4096
                 + B64Value(cs[3]) * 64 + B64Value(cs[4])
        IN <<n \div 65536, (n \div 256) % 256, n % 256>>
           \o DecodeGroups(SubSeq(cs, 5, Len(cs)))
    ELSE IF Len(cs) = 3 THEN
        LET n == (B64Value(cs[1]) * 4096 + B64Value(cs[2]) * 64 + B64Value(cs[3])) \div 4
        IN <<n \div 256, n % 256>>
    ELSE \* Len(cs) = 2
        <<(B64Value(cs[1]) * 64 + B64Value(cs[2])) \div 16>>

atob(b64) == DecodeGroups(StripPadding(b64))

\* A store into a Uint8Array keeps the low 8 bits.
base64ToUint8ArrayNoLoop(base64) == [i \in 1..Len(atob(base64)) |-> 0]
base64ToUint8Array(base64) ==
    LET binaryString == atob(base64)
    IN [i \in 1..Len(binaryString) |-> binaryString[i] % 256]

\* new Uint8Array(6000).fill(0), lines 477-478: the frame is kept by its length,
\* all of its bytes being 0.
WarmupLen == 6000

\* ------------------------------------------------------------------ state record
Cur ==
    [isLoading |-> isLoading, isAvatarVisible |-> isAvatarVisible, error |-> error,
     videoRef |-> videoRef, audioRef |-> audioRef, websocketRef |-> websocketRef,
     mediaRecorderRef |-> mediaRecorderRef, streamRef |-> streamRef,
     sockets |-> sockets, captures |-> captures, simliState |-> simliState,
     simliInitialized |-> simliInitialized, listeners |-> listeners,
     startsPending |-> startsPending, fetches |-> fetches, timers |-> timers,
     micPending |-> micPending, reads |-> reads, session |-> session,
     calls |-> <<>>]

Update(s) ==
    /\ isLoading' = s.isLoading
    /\ isAvatarVisible' = s.isAvatarVisible
    /\ error' = s.error
    /\ videoRef' = s.videoRef
    /\ audioRef' = s.audioRef
    /\ websocketRef' = s.websocketRef
    /\ mediaRecorderRef' = s.mediaRecorderRef
    /\ streamRef' = s.streamRef
    /\ sockets' = s.sockets
    /\ captures' = s.captures
    /\ simliState' = s.simliState
    /\ simliInitialized' = s.simliInitialized
    /\ listeners' = s.listeners
    /\ startsPending' = s.startsPending
    /\ fetches' = s.fetches
    /\ timers' = s.timers
    /\ micPending' = s.micPending
    /\ reads' = s.reads
    /\ session' = s.session
    /\ calls' = s.calls

Op(op, ws, data) ==
    [op |-> op, ws |-> ws, type |-> data.type, event_id |-> data.event_id,
     ping_ms |-> data.ping_ms, audio_base_64 |-> data.audio_base_64]

NoFrame == Frame("", 0, Absent, <<>>)

Commit(s, op) == Update(s) /\ lastOp' = Op(op, 0, NoFrame)

\* ------------------------------------------------------------------ collaborators
\* A call a handler makes on a collaborator, as the collaborator sees it.
Call(name) ==
    [call |-> name, ws |-> 0, type |-> "", event_id |-> 0, readyState |-> "",
     length |-> 0, bytes |-> <<>>]

Did(s, c) == [s EXCEPT !.calls = Append(@, c)]

\* The browser's WebSocket.  send() hands a frame to the socket, which sees it
\* in the readyState it has; close() starts the closing handshake of a socket
\* that is connecting or open.
NewWebSocket == [readyState |-> "CONNECTING", opened |-> FALSE, inits |-> 0]

WebSocketSend(s, ws, message) ==
    LET s1 == Did(s, [Call("send") EXCEPT !.ws = ws, !.type = message.type,
                                          !.event_id = message.event_id,
                                          !.readyState = s.sockets[ws].readyState])
    IN IF message.type = "conversation_initiation_client_data"
       THEN [s1 EXCEPT !.sockets[ws].inits = @ + 1]
       ELSE s1

WebSocketClose(s, ws) ==
    Did([s EXCEPT !.sockets[ws].readyState =
            IF @ \in {"CONNECTING", "OPEN"} THEN "CLOSING" ELSE @],
        [Call("close") EXCEPT !.ws = ws])

Message(type, event_id) == [type |-> type, event_id |-> event_id]

\* setTimeout: one more callback waits, with the delay left to it.
SetTimeout(s, timer) == [s EXCEPT !.timers = @ (+) SetToBag({timer})]

\* The SimliClient of line 226, shared by every session of the page.
SimliInitialize(s) == Did([s EXCEPT !.simliInitialized = TRUE], Call("Initialize"))
SimliOn(s) == Did([s EXCEPT !.listeners = @ + 1], Call("on"))
SimliStart(s) ==
    Did([s EXCEPT !.simliState = "starting", !.startsPending = @ + 1], Call("start"))
SimliSendAudioData(s, length, bytes) ==
    Did(s, [Call("sendAudioData") EXCEPT !.length = length, !.bytes = bytes])
SimliClearBuffer(s) == Did(s, Call("ClearBuffer"))
SimliClose(s) == Did([s EXCEPT !.simliState = "closed"], Call("simli.close"))

\* MediaRecorder.stop() makes the recorder inactive at once and leaves one last
\* dataavailable event to come; MediaStreamTrack.stop() ends the track.
NewCapture == [tracks |-> "live", recorder |-> "recording", flush |-> FALSE]
RecorderStop(s, r) ==
    Did([s EXCEPT !.captures[r].recorder = "inactive", !.captures[r].flush = TRUE],
        Call("recorder.stop"))
TracksStop(s, m) == Did([s EXCEPT !.captures[m].tracks = "ended"], Call("track.stop"))

\* ------------------------------------------------------------------ the component
\* Lines 251-264.
initializeSimliClient(s) ==
    IF s.videoRef /\ s.audioRef THEN SimliInitialize(s) ELSE s

\* Lines 282-290.
sendAudioToWebSocketUnguarded(s, audioData) ==
    IF s.websocketRef # 0
    THEN WebSocketSend(s, s.websocketRef, Message("user_audio_chunk", 0))
    ELSE s
sendAudioToWebSocket(s, audioData) ==
    IF s.websocketRef # 0 /\ s.sockets[s.websocketRef].readyState = "OPEN"
    THEN WebSocketSend(s, s.websocketRef, Message("user_audio_chunk", 0))
    ELSE s

\* Lines 295-299.
sendMessage(s, websocket, message) ==
    IF s.sockets[websocket].readyState = "OPEN"
    THEN WebSocketSend(s, websocket, message)
    ELSE s

\* Lines 350-364.
stopMicrophoneRecording(s) ==
    LET r == s.mediaRecorderRef
        s1 == IF r # 0 /\ s.captures[r].recorder # "inactive"
              THEN RecorderStop(s, r)
              ELSE s
        s2 == IF s1.streamRef # 0
              THEN [TracksStop(s1, s1.streamRef) EXCEPT !.streamRef = 0]
              ELSE s1
    IN [s2 EXCEPT !.mediaRecorderRef = 0]

\* Lines 507-528.
handleStopKeepsSocket(s) ==
    LET s1 == [s EXCEPT !.isLoading = FALSE, !.error = "", !.isAvatarVisible = FALSE]
        s3 == stopMicrophoneRecording(s1)
        s4 == SimliClose(SimliClearBuffer(s3))
    IN Did(s4, Call("onClose"))
handleStopRendererFirst(s) ==
    LET s1 == [s EXCEPT !.isLoading = FALSE, !.error = "", !.isAvatarVisible = FALSE]
        s2 == SimliClose(SimliClearBuffer(s1))
        s3 == IF s2.websocketRef # 0
              THEN [WebSocketClose(s2, s2.websocketRef) EXCEPT !.websocketRef = 0]
              ELSE s2
        s4 == stopMicrophoneRecording(s3)
    IN Did(s4, Call("onClose"))
handleStop(s) ==
    LET s1 == [s EXCEPT !.isLoading = FALSE, !.error = "", !.isAvatarVisible = FALSE]
        s2 == IF s1.websocketRef # 0
              THEN [WebSocketClose(s1, s1.websocketRef) EXCEPT !.websocketRef = 0]
              ELSE s1
        s3 == stopMicrophoneRecording(s2)
        s4 == SimliClose(SimliClearBuffer(s3))
    IN Did(s4, Call("onClose"))

\* Lines 369-375, up to the await: the signed URL is asked for.
connectToElevenLabs(s) ==
    Did([s EXCEPT !.fetches = @ + 1], Call("getElevenLabsSignedUrl"))

\* Lines 376-380, after the await: the socket is made and kept.
connectToElevenLabsResolved(s) ==
    Did([s EXCEPT !.sockets = Append(@, NewWebSocket),
                  !.websocketRef = Len(s.sockets) + 1],
        [Call("new WebSocket") EXCEPT !.ws = Len(s.sockets) + 1])

\* Lines 459-463.
connectToElevenLabsCatch(s) ==
    [s EXCEPT !.error = "Failed to connect", !.isLoading = FALSE]

\* Lines 382-392.
onopenSilent(s, websocket) == [s EXCEPT !.isAvatarVisible = TRUE, !.isLoading = FALSE]
onopen(s, websocket) ==
    LET s1 == sendMessage(s, websocket, Message("conversation_initiation_client_data", 0))
    IN [s1 EXCEPT !.isAvatarVisible = TRUE, !.isLoading = FALSE]

\* data.ping_event.ping_ms || 0, line 404
PongDelayZero(ping_ms) == 0
PongDelay(ping_ms) == IF ping_ms = Absent \/ ping_ms = 0 THEN 0 ELSE ping_ms

\* Lines 394-444.  A timer keeps the socket and the event id its closure holds
\* and the delay left of the one it was given.
onmessageFatal(s, websocket, data) ==
    LET s1 == IF data.type = "ping"
              THEN SetTimeout(s, [ws |-> websocket, event_id |-> data.event_id,
                                  left |-> PongDelay(data.ping_ms)])
              ELSE s
        s2 == IF data.type = "audio"
              THEN LET audioData == base64ToUint8Array(data.audio_base_64)
                   IN SimliSendAudioData(s1, Len(audioData), audioData)
              ELSE s1
    IN IF data.type \in {"ping", "audio", "user_transcript", "agent_response",
                         "interruption"}
       THEN s2
       ELSE WebSocketClose(s2, websocket)
onmessage(s, websocket, data) ==
    LET s1 == IF data.type = "ping"
              THEN SetTimeout(s, [ws |-> websocket, event_id |-> data.event_id,
                                  left |-> PongDelay(data.ping_ms)])
              ELSE s
        s2 == IF data.type = "audio"
              THEN LET audioData == base64ToUint8Array(data.audio_base_64)
                   IN SimliSendAudioData(s1, Len(audioData), audioData)
              ELSE s1
    IN s2

\* Lines 399-404: the callback of the timer.
pongCallback(s, timer) == sendMessage(s, timer.ws, Message("pong", timer.event_id))

\* Lines 446-452.
oncloseNoStop(s, websocket) ==
    [stopMicrophoneRecording([s EXCEPT !.isAvatarVisible = FALSE])
        EXCEPT !.websocketRef = 0]
onclose(s, websocket) ==
    LET s1 == [s EXCEPT !.isAvatarVisible = FALSE]
        s2 == stopMicrophoneRecording(s1)
        s3 == handleStop(s2)
    IN [s3 EXCEPT !.websocketRef = 0]

\* Lines 454-458.
onerror(s) == [s EXCEPT !.error = "WebSocket connection failed", !.isLoading = FALSE]

\* Lines 473-483: one "connected" callback.
onconnected(s) == connectToElevenLabs(SimliSendAudioData(s, WarmupLen, <<>>))

\* The SimliClient calls every registered callback in turn.
RECURSIVE EmitConnected(_, _)
EmitConnected(s, n) == IF n = 0 THEN s ELSE EmitConnected(onconnected(s), n - 1)

\* Lines 469-496, up to the await of simliClient.start().
handleStart(s) ==
    LET s1 == initializeSimliClient(s)
        s2 == SimliOn(s1)
        s3 == Did([s2 EXCEPT !.isLoading = TRUE, !.error = ""], Call("onStart"))
    IN SimliStart(s3)

\* Lines 497-501.
handleStartCatch(s) ==
    [s EXCEPT !.error = "Error starting interaction", !.isLoading = FALSE]

\* Lines 304-306, up to the await of getUserMedia.
setupMicrophoneRecording(s) == Did([s EXCEPT !.micPending = @ + 1], Call("getUserMedia"))

\* Lines 315-340, after the await.
setupMicrophoneRecordingResolved(s) ==
    LET c == Len(s.captures) + 1
    IN Did([s EXCEPT !.captures = Append(@, NewCapture), !.streamRef = c,
                     !.mediaRecorderRef = c],
           Call("recorder.start"))

\* Lines 325-335: a chunk is read whenever it has bytes, whatever they encode.
ondataavailable(s, data) ==
    IF data.size > 0 THEN [s EXCEPT !.reads = @ (+) SetToBag({data})] ELSE s

\* Lines 329-332.
onloadend(s) == sendAudioToWebSocket(s, "base64Audio")

\* The start button is rendered while the avatar is hidden and is disabled
\* while loading (lines 556-560); the stop button is rendered otherwise (574-577).
StartButtonNeverDisabled == ~isAvatarVisible
StartButtonEnabled == ~isAvatarVisible /\ ~isLoading
StopButtonShown == isAvatarVisible

\* ------------------------------------------------------------------ the first component
\* Lines 1-199: the conversation is the useConversation hook's.  `session` is
\* the hook's session with the agent, the number of clicks of the start
\* button, and, for the start in course, whether the microphone was refused
\* and whether startSession was called.
NoSession == [status |-> "disconnected", starts |-> 0, micDenied |-> FALSE,
              opened |-> FALSE]

ConversationStartSession(s) ==
    Did([s EXCEPT !.session.status = "connecting", !.session.opened = TRUE],
        Call("startSession"))
ConversationEndSession(s) ==
    Did([s EXCEPT !.session.status = IF @ = "disconnected" THEN @ ELSE "ending"],
        Call("endSession"))

\* Lines 38-43.
onConnect(s) == [s EXCEPT !.isAvatarVisible = TRUE, !.isLoading = FALSE]
\* Lines 45-48.
onDisconnect(s) == [s EXCEPT !.isAvatarVisible = FALSE]
\* Lines 54-57.
onError(s) == [s EXCEPT !.error = "Conversation error"]

\* Lines 91-98, up to the await of getUserMedia.
handleStartHookEager(s) ==
    LET s1 == Did([s EXCEPT !.isLoading = TRUE, !.error = "",
                            !.session.starts = @ + 1,
                            !.session.micDenied = FALSE,
                            !.session.opened = FALSE], Call("onStart"))
    IN SimliStart(Did([s1 EXCEPT !.micPending = @ + 1], Call("getUserMedia")))
handleStartHook(s) ==
    LET s1 == Did([s EXCEPT !.isLoading = TRUE, !.error = "",
                            !.session.starts = @ + 1,
                            !.session.micDenied = FALSE,
                            !.session.opened = FALSE], Call("onStart"))
    IN Did([s1 EXCEPT !.micPending = @ + 1], Call("getUserMedia"))

\* Lines 100-101: the microphone was granted, the SimliClient is started.
handleStartHookGranted(s) == SimliStart(s)

\* Lines 102-106.
handleStartHookCatch(s) ==
    [s EXCEPT !.error = "Error starting interaction", !.isLoading = FALSE]

\* Lines 112-126.
handleStopHook(s) ==
    LET s1 == [s EXCEPT !.isLoading = FALSE, !.error = "", !.isAvatarVisible = FALSE]
        s2 == ConversationEndSession(s1)
        s3 == SimliClose(s2)
    IN Did(s3, Call("onClose"))

\* Lines 129-144: the effect.
effectHook(s) == SimliOn(initializeSimliClient(s))

\* Lines 133-143: one "connected" callback.
onconnectedHook(s) == ConversationStartSession(SimliSendAudioData(s, WarmupLen, <<>>))

RECURSIVE EmitConnectedHook(_, _)
EmitConnectedHook(s, n) ==
    IF n = 0 THEN s ELSE EmitConnectedHook(onconnectedHook(s), n - 1)

\* ------------------------------------------------------------------ actions
Init ==
    /\ isLoading = FALSE
    /\ isAvatarVisible = FALSE
    /\ error = ""
    /\ videoRef = TRUE
    /\ audioRef = TRUE
    /\ websocketRef = 0
    /\ mediaRecorderRef = 0
    /\ streamRef = 0
    /\ sockets = <<>>
    /\ captures = <<>>
    /\ simliState = "closed"
    /\ simliInitialized = FALSE
    /\ listeners = 0
    /\ startsPending = 0
    /\ fetches = 0
    /\ timers = EmptyBag
    /\ micPending = 0
    /\ reads = EmptyBag
    /\ session = NoSession
    /\ calls = <<>>
    /\ lastOp = Op("mount", 0, NoFrame)

\* The user clicks the start button.
ClickStart ==
    /\ StartButtonEnabled
    /\ listeners < MaxStarts
    /\ Commit(handleStart(Cur), "handleStart")

\* The user clicks the stop button.
ClickStop ==
    /\ StopButtonShown
    /\ Commit(handleStop(Cur), "handleStop")

\* simliClient.start() resolves: handleStart returns.
StartResolved ==
    /\ startsPending > 0
    /\ Commit([Cur EXCEPT !.startsPending = @ - 1,
                          !.simliState = IF @ = "starting" THEN "started" ELSE @],
              "startResolved")

\* simliClient.start() rejects: the catch of handleStart runs.
StartRejected ==
    /\ startsPending > 0
    /\ simliState \in {"starting", "closed"}
    /\ Commit(handleStartCatch([Cur EXCEPT !.startsPending = @ - 1,
                                           !.simliState = "closed"]),
              "startRejected")

\* The SimliClient fires "connected", once for a start that succeeded.
SimliConnected ==
    /\ simliState = "started"
    /\ Commit(EmitConnected([Cur EXCEPT !.simliState = "connected"], listeners),
              "connected")

\* getElevenLabsSignedUrl resolves.
FetchResolved ==
    /\ fetches > 0
    /\ Len(sockets) < MaxSockets
    /\ Commit(connectToElevenLabsResolved([Cur EXCEPT !.fetches = @ - 1]),
              "fetchResolved")

\* getElevenLabsSignedUrl rejects, or new WebSocket throws.
FetchRejected ==
    /\ fetches > 0
    /\ Commit(connectToElevenLabsCatch([Cur EXCEPT !.fetches = @ - 1]),
              "fetchRejected")

\* The socket opens.
SocketOpen(ws) ==
    /\ sockets[ws].readyState = "CONNECTING"
    /\ Update(onopen([Cur EXCEPT !.sockets[ws].readyState = "OPEN",
                                 !.sockets[ws].opened = TRUE], ws))
    /\ lastOp' = Op("onopen", ws, NoFrame)

\* A frame arrives on an open socket.
SocketMessage(ws, data) ==
    /\ sockets[ws].readyState = "OPEN"
    /\ data.type = "ping" => BagCardinality(timers) < MaxTimers
    /\ Update(onmessage(Cur, ws, data))
    /\ lastOp' = Op("onmessage", ws, data)

\* The connection ends: the socket is CLOSED, an error event is fired first
\* when the connection failed, then the close event, in the same task.  A
\* socket that never opened can only fail.
SocketClosed(ws, failed) ==
    /\ sockets[ws].readyState # "CLOSED"
    /\ sockets[ws].readyState = "CONNECTING" => failed
    /\ LET s0 == [Cur EXCEPT !.sockets[ws].readyState = "CLOSED"]
           s1 == IF failed THEN onerror(s0) ELSE s0
       IN Update(onclose(s1, ws))
    /\ lastOp' = Op(IF failed THEN "onerror+onclose" ELSE "onclose", ws, NoFrame)

\* A pong timer runs.
PongTimer(timer) ==
    /\ timer.left = 0
    /\ Update(pongCallback([Cur EXCEPT !.timers = @ (-) SetToBag({timer})], timer))
    /\ lastOp' = Op("pongTimer", timer.ws, Frame("pong", timer.event_id, Absent, <<>>))

\* One unit of time passes: every pending timer has one unit less to wait.
Earlier(timer) == [timer EXCEPT !.left = IF @ > 0 THEN @ - 1 ELSE 0]
Later(timer) == [timer EXCEPT !.left = @ + 1]
Elapse(bag) ==
    [timer \in {Earlier(u) : u \in BagToSet(bag)} |->
        IF timer.left = 0
        THEN CopiesIn(timer, bag) + CopiesIn(Later(timer), bag)
        ELSE CopiesIn(Later(timer), bag)]

Tick ==
    /\ \E timer \in BagToSet(timers) : timer.left > 0
    /\ Commit([Cur EXCEPT !.timers = Elapse(timers)], "tick")

Next ==
    \/ ClickStart
    \/ ClickStop
    \/ StartResolved
    \/ StartRejected
    \/ SimliConnected
    \/ FetchResolved
    \/ FetchRejected
    \/ \E ws \in 1..Len(sockets) : SocketOpen(ws)
    \/ \E ws \in 1..Len(sockets), data \in InboundFrames : SocketMessage(ws, data)
    \/ \E ws \in 1..Len(sockets), failed \in BOOLEAN : SocketClosed(ws, failed)
    \/ \E timer \in BagToSet(timers) : PongTimer(timer)
    \/ Tick

\* The component as the page runs it.
Spec == Init /\ [][Next]_vars

\* ------------------------------------------------------------------ capture
\* setupMicrophoneRecording has no caller (its call at line 372 is commented
\* out).  SpecCapture runs the component with the capture pipeline driven
\* from outside: the function is called, the microphone is granted or refused,
\* the recorder delivers chunks and the FileReader finishes its loads.
SetupMicrophoneRecording ==
    /\ micPending + Len(captures) < MaxCaptures
    /\ Commit(setupMicrophoneRecording(Cur), "setupMicrophoneRecording")

MicGranted ==
    /\ micPending > 0
    /\ Commit(setupMicrophoneRecordingResolved([Cur EXCEPT !.micPending = @ - 1]),
              "micGranted")

\* getUserMedia rejects: lines 341-344 rethrow to the caller.
MicDenied ==
    /\ micPending > 0
    /\ Commit([Cur EXCEPT !.micPending = @ - 1], "micDenied")

\* The recorder delivers a chunk: every 100 ms while it records, and once
\* more after stop().
DataAvailable(c, data) ==
    /\ captures[c].recorder = "recording" \/ captures[c].flush
    /\ data.size > 0 => BagCardinality(reads) < MaxReads
    /\ Update(ondataavailable(
          [Cur EXCEPT !.captures[c].flush =
              IF captures[c].recorder = "recording" THEN @ ELSE FALSE], data))
    /\ lastOp' = Op("ondataavailable", 0,
                    Frame(IF data.silent THEN "silent" ELSE "voiced", data.size,
                          Absent, <<>>))

\* The FileReader load of a chunk ends.
LoadEnd(data) ==
    /\ CopiesIn(data, reads) > 0
    /\ Update(onloadend([Cur EXCEPT !.reads = @ (-) SetToBag({data})]))
    /\ lastOp' = Op("onloadend", 0,
                    Frame(IF data.silent THEN "silent" ELSE "voiced", data.size,
                          Absent, <<>>))

NextCapture ==
    \/ Next
    \/ SetupMicrophoneRecording
    \/ MicGranted
    \/ MicDenied
    \/ \E c \in 1..Len(captures), data \in Chunks : DataAvailable(c, data)
    \/ \E data \in BagToSet(reads) : LoadEnd(data)

SpecCapture == Init /\ [][NextCapture]_vars

\* SpecStop runs the sessions of the component, start to stop, with the
\* microphone asked for from outside and no frame delivered: what a stop has
\* to undo.
NextStop ==
    \/ ClickStart
    \/ ClickStop
    \/ StartResolved
    \/ StartRejected
    \/ SimliConnected
    \/ FetchResolved
    \/ FetchRejected
    \/ \E ws \in 1..Len(sockets) : SocketOpen(ws)
    \/ \E ws \in 1..Len(sockets), failed \in BOOLEAN : SocketClosed(ws, failed)
    \/ SetupMicrophoneRecording
    \/ MicGranted
    \/ MicDenied

SpecStop == Init /\ [][NextStop]_vars

\* SpecClose runs the sessions that reach an open connection and end by a
\* stop, a close by the agent or a failure, the microphone being captured
\* while the connection is open: setupMicrophoneRecording run to its end.
CaptureWhileOpen ==
    /\ websocketRef # 0
    /\ sockets[websocketRef].readyState = "OPEN"
    /\ mediaRecorderRef = 0
    /\ Len(captures) < MaxCaptures
    /\ Commit(setupMicrophoneRecordingResolved(Cur), "micGranted")

NextClose ==
    \/ ClickStart
    \/ ClickStop
    \/ StartResolved
    \/ SimliConnected
    \/ FetchResolved
    \/ \E ws \in 1..Len(sockets) : SocketOpen(ws)
    \/ \E ws \in 1..Len(sockets), failed \in BOOLEAN : SocketClosed(ws, failed)
    \/ CaptureWhileOpen

\* The browser ends the closing handshake of a socket that close() was called
\* on: the close event of a CLOSING socket is delivered in the end.
HandshakeEnds ==
    \E ws \in 1..Len(sockets), failed \in BOOLEAN :
        /\ sockets[ws].readyState = "CLOSING"
        /\ SocketClosed(ws, failed)

SpecClose == Init /\ [][NextClose]_vars /\ WF_vars(HandshakeEnds)

\* SpecCycles runs one more session than Spec, with the agent's audio as the
\* only frames and no pings.
ClickStartAgain ==
    /\ StartButtonEnabled
    /\ listeners < MaxCycles
    /\ Commit(handleStart(Cur), "handleStart")

NextCycles ==
    \/ ClickStartAgain
    \/ ClickStop
    \/ StartResolved
    \/ StartRejected
    \/ SimliConnected
    \/ FetchResolved
    \/ FetchRejected
    \/ \E ws \in 1..Len(sockets) : SocketOpen(ws)
    \/ \E ws \in 1..Len(sockets), data \in {f \in InboundFrames : f.type = "audio"} :
          SocketMessage(ws, data)
    \/ \E ws \in 1..Len(sockets), failed \in BOOLEAN : SocketClosed(ws, failed)

SpecCycles == Init /\ [][NextCycles]_vars

\* SpecNoSurfaces runs the component on a page where VideoBox (line 548) has
\* not attached the <video> and the <audio> element to the refs, or one of the
\* two only.
InitNoSurfaces ==
    /\ Init!1 /\ Init!2 /\ Init!3
    /\ videoRef \in BOOLEAN
    /\ audioRef \in BOOLEAN
    /\ ~(videoRef /\ audioRef)
    /\ Init!6 /\ Init!7 /\ Init!8 /\ Init!9 /\ Init!10 /\ Init!11 /\ Init!12
    /\ Init!13 /\ Init!14 /\ Init!15 /\ Init!16 /\ Init!17 /\ Init!18 /\ Init!19
    /\ Init!20 /\ Init!21

SpecNoSurfaces == InitNoSurfaces /\ [][Next]_vars

\* ------------------------------------------------------------------ first component
\* The state after mount: the effect of lines 129-149 has run once.
InitHook ==
    /\ Init!1 /\ Init!2 /\ Init!3 /\ Init!4 /\ Init!5 /\ Init!6 /\ Init!7 /\ Init!8
    /\ Init!9 /\ Init!10 /\ Init!11
    /\ simliInitialized = TRUE
    /\ listeners = 1
    /\ Init!14 /\ Init!15 /\ Init!16 /\ Init!17 /\ Init!18 /\ Init!19
    /\ calls = <<Call("Initialize"), Call("on")>>
    /\ lastOp = Op("mount", 0, NoFrame)

HookClickStart ==
    /\ StartButtonEnabled
    /\ session.starts < MaxStarts
    /\ Commit(handleStartHook(Cur), "handleStart")

HookClickStop ==
    /\ StopButtonShown
    /\ Commit(handleStopHook(Cur), "handleStop")

\* The effect runs again after a render that changed `conversation`.
HookEffect ==
    /\ listeners < MaxStarts
    /\ Commit(effectHook(Cur), "effect")

HookMicGranted ==
    /\ micPending > 0
    /\ Commit(handleStartHookGranted([Cur EXCEPT !.micPending = @ - 1]), "micGranted")

HookMicDenied ==
    /\ micPending > 0
    /\ Commit(handleStartHookCatch([Cur EXCEPT !.micPending = @ - 1,
                                               !.session.micDenied = TRUE]),
              "micDenied")

HookStartRejected ==
    /\ startsPending > 0
    /\ simliState \in {"starting", "closed"}
    /\ Commit(handleStartHookCatch([Cur EXCEPT !.startsPending = @ - 1,
                                               !.simliState = "closed"]),
              "startRejected")

HookSimliConnected ==
    /\ simliState = "started"
    /\ Commit(EmitConnectedHook([Cur EXCEPT !.simliState = "connected"], listeners),
              "connected")

SessionConnected ==
    /\ session.status = "connecting"
    /\ Commit(onConnect([Cur EXCEPT !.session.status = "connected"]), "onConnect")

SessionDisconnected ==
    /\ session.status # "disconnected"
    /\ Commit(onDisconnect([Cur EXCEPT !.session.status = "disconnected"]),
              "onDisconnect")

SessionError ==
    /\ session.status \in {"connecting", "connected"}
    /\ Commit(onError(Cur), "onError")

NextHook ==
    \/ HookClickStart
    \/ HookClickStop
    \/ HookEffect
    \/ HookMicGranted
    \/ HookMicDenied
    \/ StartResolved
    \/ HookStartRejected
    \/ HookSimliConnected
    \/ SessionConnected
    \/ SessionDisconnected
    \/ SessionError

SpecHook == InitHook /\ [][NextHook]_vars

\* ------------------------------------------------------------------ outbound chunks
\* SpecSend runs the component with sendAudioToWebSocket called whenever a
\* chunk could have been read: at any moment of the session.
SendAudioChunk == Commit(sendAudioToWebSocket(Cur, "base64Audio"), "sendAudioToWebSocket")

NextSend ==
    \/ Next
    \/ SendAudioChunk

SpecSend == Init /\ [][NextSend]_vars

\* ------------------------------------------------------------------ claims
Sends == {i \in 1..Len(calls) : calls[i].call = "send"}
StopOps == {"handleStop", "onclose", "onerror+onclose"}
Idle == ~isLoading /\ ~isAvatarVisible
InitType == "conversation_initiation_client_data"

\* C1: a frame reaches a socket only while the socket is OPEN, and only from
\* the handler that produced it: the init frame from the open handler, a pong
\* from its timer, a chunk from the chunk sender.  An attempt on a socket that
\* is absent or not OPEN makes no call at all, so nothing is left to send later.
C1_SendOnlyWhenOpen ==
    \A i \in Sends :
        /\ calls[i].readyState = "OPEN"
        /\ calls[i].type = InitType => lastOp.op = "onopen"
        /\ calls[i].type = "pong" => lastOp.op = "pongTimer"
        /\ calls[i].type = "user_audio_chunk" => lastOp.op = "sendAudioToWebSocket"

\* A chunk offered while the socket is still CONNECTING was dropped.
C1_Witness ==
    /\ lastOp.op = "sendAudioToWebSocket"
    /\ websocketRef # 0
    /\ sockets[websocketRef].readyState = "CONNECTING"
    /\ calls = <<>>

\* C2: once stop has run (from the button or from the close handler) the
\* coordinator holds no socket, no recorder and no stream, it is IDLE with no
\* error shown and the renderer is closed.  The state a stop leaves is the same
\* whatever preceded it, so a second stop leaves what the first one left.
C2_StopLeavesIdle ==
    lastOp.op \in StopOps =>
        /\ websocketRef = 0
        /\ mediaRecorderRef = 0
        /\ streamRef = 0
        /\ Idle
        /\ error = ""
        /\ simliState = "closed"

\* A second stop: the close event of a socket the coordinator had already let
\* go of, after a stop that ended a live stream, so that this stop found no
\* socket to close and no track to end.
C2_Witness ==
    /\ lastOp.op = "onclose"
    /\ sockets[lastOp.ws].opened
    /\ \A i \in 1..Len(calls) : calls[i].call \notin {"close", "track.stop"}
    /\ \E c \in 1..Len(captures) : captures[c].tracks = "ended"

\* C3: whenever the socket has opened and the avatar is shown, a recorder is held.
C3_ActiveHasCapture ==
    (lastOp.op = "onopen" /\ isAvatarVisible) => mediaRecorderRef # 0

\* C4: a socket that opened was sent the init frame exactly once, a socket
\* that did not open was sent none; the init frame is the only call of the open
\* handler, and any other frame goes to a socket that already has its init frame.
C4_OneInitFirst ==
    /\ \A ws \in 1..Len(sockets) :
          sockets[ws].inits = IF sockets[ws].opened THEN 1 ELSE 0
    /\ \A i \in Sends :
          IF calls[i].type = InitType
          THEN lastOp.op = "onopen" /\ calls[i].ws = lastOp.ws /\ Len(calls) = 1
          ELSE lastOp.op # "onopen" /\ sockets[calls[i].ws].inits = 1

\* A pong or a chunk went out on a socket that has its init frame.
C4_Witness ==
    /\ lastOp.op = "sendAudioToWebSocket"
    /\ Len(calls) = 1
    /\ sockets[calls[1].ws].inits = 1

\* The bytes each payload stands for.
DecodedBytes(p) == IF p = <<>> THEN <<>> ELSE <<0, 255>>

\* C5: the handler of an `audio` frame makes exactly one sendAudioData call,
\* with the bytes the payload stands for (none for an empty payload), before
\* the next frame is handled; no other frame makes the renderer a call, and
\* agent audio reaches the renderer from no other handler.
C5_AudioForwarded ==
    /\ (lastOp.op = "onmessage" /\ lastOp.type = "audio") =>
          calls = << [Call("sendAudioData") EXCEPT
                        !.length = Len(DecodedBytes(lastOp.audio_base_64)),
                        !.bytes = DecodedBytes(lastOp.audio_base_64)] >>
    /\ (lastOp.op = "onmessage" /\ lastOp.type # "audio") => calls = <<>>
    /\ \A i \in 1..Len(calls) :
          (calls[i].call = "sendAudioData" /\ lastOp.op # "onmessage") =>
              lastOp.op = "connected" /\ calls[i].length = WarmupLen

C5_Witness ==
    /\ lastOp.op = "onmessage"
    /\ lastOp.audio_base_64 = <<"A", "P", "8", "=">>
    /\ Len(calls) = 1
    /\ calls[1].bytes = <<0, 255>>

\* The timer a ping asks for.
AskedTimer(op) ==
    [ws |-> op.ws, event_id |-> op.event_id,
     left |-> IF op.ping_ms = Absent THEN 0 ELSE op.ping_ms]

\* C6: a ping arms exactly one timer, for the socket it came on, with its event
\* id and the delay it asked for (0 when it gave none), and sends nothing yet;
\* a timer that runs is gone and, when its socket is OPEN, has sent exactly one
\* pong with its event id on its socket, else nothing; no other step sends a
\* pong or arms or drops a timer.
C6_PongForPing ==
    [][ /\ (lastOp'.op = "onmessage" /\ lastOp'.type = "ping") =>
              /\ timers' = timers (+) SetToBag({AskedTimer(lastOp')})
              /\ calls' = <<>>
        /\ lastOp'.op = "pongTimer" =>
              LET timer == [ws |-> lastOp'.ws, event_id |-> lastOp'.event_id, left |-> 0]
              IN /\ CopiesIn(timer, timers) > 0
                 /\ timers' = timers (-) SetToBag({timer})
                 /\ calls' = IF sockets[timer.ws].readyState = "OPEN"
                             THEN << [Call("send") EXCEPT !.ws = timer.ws,
                                                          !.type = "pong",
                                                          !.event_id = timer.event_id,
                                                          !.readyState = "OPEN"] >>
                             ELSE <<>>
        /\ lastOp'.op # "pongTimer" =>
              \A i \in 1..Len(calls') : calls'[i].type # "pong"
        /\ lastOp'.op = "tick" => BagCardinality(timers') = BagCardinality(timers)
        /\ (lastOp'.op \notin {"pongTimer", "tick"}
            /\ ~(lastOp'.op = "onmessage" /\ lastOp'.type = "ping")) =>
              timers' = timers
      ]_vars

\* The pong of the ping that asked for a delay was sent.
C6_Witness ==
    /\ lastOp.op = "pongTimer"
    /\ lastOp.event_id = 2
    /\ Len(calls) = 1

FailureOps == {"startRejected", "fetchRejected", "onerror+onclose"}

\* C7: a failure while the coordinator is starting leaves it IDLE with an error shown.
C7_FailureShowsError ==
    [][ (isLoading /\ lastOp'.op \in FailureOps) => (Idle' /\ error' # "") ]_vars

\* C8: when the microphone is refused the coordinator is IDLE with an error
\* shown, and from the click of that start on, before the refusal and after it,
\* no session with the agent was opened.
C8_MicDeniedNoSocket ==
    /\ lastOp.op = "micDenied" => (Idle /\ error # "")
    /\ session.micDenied => ~session.opened /\ session.status # "connecting"

\* The microphone is refused on the second start, the first one having talked
\* to the agent.
C8_Witness ==
    /\ lastOp.op = "micDenied"
    /\ session.micDenied
    /\ session.starts = 2
    /\ simliState = "connected"

\* C9: at most one socket is connecting or open, and at most one stream is live.
C9_OneSocket ==
    /\ Cardinality({ws \in 1..Len(sockets) :
                       sockets[ws].readyState \in {"CONNECTING", "OPEN"}}) <= 1
    /\ Cardinality({c \in 1..Len(captures) : captures[c].tracks = "live"}) <= 1

\* C10: while the coordinator is not IDLE no step is a start: no observer is
\* registered, the renderer is not initialized or started, onStart is not called.
C10_NoStartUnlessIdle ==
    [][ ~Idle =>
          /\ lastOp'.op # "handleStart"
          /\ listeners' = listeners
          /\ \A i \in 1..Len(calls') :
                calls'[i].call \notin {"on", "start", "Initialize", "onStart"}
      ]_vars

\* The coordinator is starting, the signed URL asked for: the button is disabled.
C10_Witness ==
    /\ isLoading
    /\ fetches > 0
    /\ ~StartButtonEnabled

\* C11: the load of a chunk of a silent buffer ends without a frame sent.
C11_SilentNotSent ==
    (lastOp.op = "onloadend" /\ lastOp.type = "silent") =>
        \A i \in 1..Len(calls) : calls[i].call # "send"

\* C12: once stop has run and no start has followed it (the renderer is closed),
\* a signed URL that arrives makes no socket, and no socket that opens makes
\* the coordinator ACTIVE.
C12_StoppedFetchDiscarded ==
    [][ /\ (lastOp'.op = "fetchResolved" /\ simliState = "closed") =>
              (sockets' = sockets /\ websocketRef' = websocketRef)
        /\ (lastOp'.op = "onopen" /\ simliState = "closed") => ~isAvatarVisible'
      ]_vars

\* The places of a call in the calls of the last handler.
Pos(name) == {i \in 1..Len(calls) : calls[i].call = name}
CaptureStops == Pos("recorder.stop") \cup Pos("track.stop")

\* C13: a stop clears the renderer's buffer once and then closes the renderer
\* once, after every socket close and every recorder or track stop of the
\* step, and calls onClose last; in a stop from the button the socket is closed
\* before the recorder and the tracks are stopped.  When the renderer has been
\* closed the coordinator holds no socket, no recorder and no stream.
C13_TeardownOrder ==
    lastOp.op \in StopOps =>
        /\ Cardinality(Pos("ClearBuffer")) = 1
        /\ Cardinality(Pos("simli.close")) = 1
        /\ \A i \in Pos("ClearBuffer"), j \in Pos("simli.close") : i < j
        /\ \A i \in Pos("close") \cup CaptureStops, j \in Pos("ClearBuffer") : i < j
        /\ Pos("onClose") = {Len(calls)}
        /\ lastOp.op = "handleStop" =>
              \A i \in Pos("close"), j \in CaptureStops : i < j
        /\ websocketRef = 0 /\ mediaRecorderRef = 0 /\ streamRef = 0

\* A stop from the button that had a socket to close and a recorder and a
\* stream to stop.
C13_Witness ==
    /\ lastOp.op = "handleStop"
    /\ Pos("close") # {}
    /\ Pos("recorder.stop") # {}
    /\ Pos("track.stop") # {}

CloseOps == {"onclose", "onerror+onclose"}

\* The state a close event leaves: the socket CLOSED, no socket, recorder or
\* stream held, the renderer cleared and closed, the coordinator IDLE with no
\* error shown; and the cleanup run again from it changes no part of it.
Terminal ==
    /\ sockets[lastOp.ws].readyState = "CLOSED"
    /\ websocketRef = 0 /\ mediaRecorderRef = 0 /\ streamRef = 0
    /\ simliState = "closed"
    /\ Pos("ClearBuffer") # {} /\ Pos("simli.close") # {}
    /\ Idle /\ error = ""
    /\ [handleStop(Cur) EXCEPT !.calls = <<>>] = Cur

\* C14: the close event of a socket leaves the terminal state, whether the
\* socket was closing after close(), or open and closed by the agent, or open
\* and failed; and a socket that close() was called on is CLOSED in the end:
\* a CLOSING socket can only become CLOSED, and time and again none is CLOSING.
C14_CloseConverges ==
    /\ [](lastOp.op \in CloseOps => Terminal)
    /\ []<>(\A ws \in 1..Len(sockets) : sockets[ws].readyState # "CLOSING")

\* A transport error on an open connection, with a recorder and a stream to
\* release, was handled.
C14_Witness ==
    /\ lastOp.op = "onerror+onclose"
    /\ sockets[lastOp.ws].opened
    /\ Pos("track.stop") # {}

\* C15: once a failure has been handled the renderer is closed, no socket is
\* connecting or open and no stream is live.
C15_ErrorTearsDown ==
    lastOp.op \in FailureOps =>
        /\ simliState = "closed"
        /\ \A ws \in 1..Len(sockets) : sockets[ws].readyState \notin {"CONNECTING", "OPEN"}
        /\ \A c \in 1..Len(captures) : captures[c].tracks # "live"

\* C16: a start made while a surface is missing does not start the renderer,
\* which it has not initialized.
C16_StartNeedsSurfaces ==
    (lastOp.op = "handleStart" /\ ~(videoRef /\ audioRef)) =>
        (Pos("start") = {} \/ simliInitialized)

\* C17: the signed URL is asked for only by a "connected" callback, right after
\* the warm-up frame the callback pushes; a socket is made only when a signed
\* URL arrives; and no agent audio is pushed to the renderer while a session
\* has been started and its warm-up frame is still to come.
C17_WarmupFirst ==
    /\ \A i \in Pos("getElevenLabsSignedUrl") :
          /\ lastOp.op = "connected"
          /\ i > 1
          /\ calls[i - 1].call = "sendAudioData"
          /\ calls[i - 1].length = WarmupLen
    /\ Pos("new WebSocket") # {} => lastOp.op = "fetchResolved"
    /\ (lastOp.op = "onmessage" /\ lastOp.type = "audio") =>
          simliState \notin {"starting", "started"}

\* C18: a frame that is informational or of an unknown tag makes no call on
\* the socket or on the renderer and changes nothing of the state of the
\* coordinator, of the sockets, of the renderer or of the timers.
C18_InfoFramesIgnored ==
    [][ (lastOp'.op = "onmessage" /\ lastOp'.type \in InfoTags \cup UnknownTags) =>
          /\ calls' = <<>>
          /\ UNCHANGED <<isLoading, isAvatarVisible, error, videoRef, audioRef,
                         websocketRef, mediaRecorderRef, streamRef, sockets,
                         captures, simliState, simliInitialized, listeners,
                         startsPending, fetches, timers, micPending, reads,
                         session>>
      ]_vars

\* A frame of a tag the handler does not know arrived on the open connection
\* of an active session.
C18_Witness ==
    /\ lastOp.op = "onmessage"
    /\ lastOp.type \in UnknownTags
    /\ isAvatarVisible
    /\ sockets[lastOp.ws].readyState = "OPEN"

\* C19: the close event of a socket that stop has closed (it is CLOSING),
\* delivered when a new start has followed the stop (the renderer is not
\* closed) and the coordinator holds another socket, leaves that socket as it
\* is and still held, and the renderer as it is.
C19_StaleCloseHarmless ==
    [][ (/\ lastOp'.op \in CloseOps
         /\ sockets[lastOp'.ws].readyState = "CLOSING"
         /\ simliState # "closed"
         /\ websocketRef # 0
         /\ websocketRef # lastOp'.ws) =>
          /\ websocketRef' = websocketRef
          /\ sockets'[websocketRef] = sockets[websocketRef]
          /\ simliState' = simliState
      ]_vars

\* C20: the close event of a socket that stop has already closed (it is
\* CLOSING) calls neither onClose nor the renderer's close again.
C20_CloseOnce ==
    [][ (lastOp'.op \in CloseOps /\ sockets[lastOp'.ws].readyState = "CLOSING") =>
          \A i \in 1..Len(calls') : calls'[i].call \notin {"onClose", "simli.close"}
      ]_vars

====
